---- MODULE Spec2Model ----
(***************************************************************************)
(* Model of the event processor of the Gitea - Jenkins webhook bridge:     *)
(* internal/processor/processor.go (queue, worker pool, processEvent),     *)
(* the polling loop of internal/jenkins/client.go (Client.WaitForJob) and  *)
(* the defaults of internal/config/config.go (Validate, GetRepositoryRule).*)
(* Time is counted in ticks; one tick is the unit in which the configured  *)
(* durations are expressed.                                                *)
(***************************************************************************)
EXTENDS Integers, Sequences, FiniteSets, TLC

\* ---------------------------------------------------------------- bounds
\* cfg.Server.WorkerPoolSize, the pool size N
WorkerPoolSize == 2
\* cfg.Server.QueueSize, the capacity of the buffered channel
QueueSize == 1
\* number of events Enqueue accepts in a run
MaxTasks == 2
\* cfg.Jenkins.Timeout in ticks (the default every rule inherits)
WaitTimeout == 2
\* cfg.Jenkins.PollInterval in ticks (the default every rule inherits)
PollInterval == 1
\* the deadline a caller grants the shutdown, in ticks
ShutdownDeadline == 1

Workers == 1..WorkerPoolSize
TaskIds == 1..MaxTasks

\* ---------------------------------------------------------------- configuration
\* The repository rules as written in the configuration file: no rule sets
\* its own poll_interval or timeout (both 0 until Validate fills them in), and
\* an empty comment template stands for one that is not set.
Repositories ==
  { [Name |-> "org/repo", JobPattern |-> "^job-{{ .Number }}$",
     PollInterval |-> 0, Timeout |-> 0,
     SuccessCommentTemplate |-> "", FailureCommentTemplate |-> ""],
    [Name |-> "org/badtpl", JobPattern |-> "^job-{{ .Number",
     PollInterval |-> 0, Timeout |-> 0,
     SuccessCommentTemplate |-> "", FailureCommentTemplate |-> ""],
    [Name |-> "org/badre", JobPattern |-> "^job-({{ .Number }}$",
     PollInterval |-> 0, Timeout |-> 0,
     SuccessCommentTemplate |-> "", FailureCommentTemplate |-> ""],
    [Name |-> "org/badcomment", JobPattern |-> "^job-{{ .Number }}$",
     PollInterval |-> 0, Timeout |-> 0,
     SuccessCommentTemplate |-> "", FailureCommentTemplate |-> "no job for PR {{ .Number"] }

\* The comment templates Validate gives a rule that sets none.
DefaultSuccessCommentTemplate == "Jenkins job {{ .JobName }} detected: {{ .JobURL }}"

DefaultFailureCommentTemplate ==
  "Jenkins job not detected for PR {{ .Number }} within timeout ({{ .Timeout }})."

\* Config.Validate: a rule's non-positive poll interval and timeout are
\* replaced by the Jenkins-level values, its empty comment templates by the
\* default ones.
Validate(rule) ==
  [rule EXCEPT
     !.PollInterval = IF rule.PollInterval <= 0 THEN PollInterval ELSE rule.PollInterval,
     !.Timeout      = IF rule.Timeout <= 0 THEN WaitTimeout ELSE rule.Timeout,
     !.SuccessCommentTemplate =
        IF rule.SuccessCommentTemplate = "" THEN DefaultSuccessCommentTemplate
        ELSE rule.SuccessCommentTemplate,
     !.FailureCommentTemplate =
        IF rule.FailureCommentTemplate = "" THEN DefaultFailureCommentTemplate
        ELSE rule.FailureCommentTemplate]

\* The rules after Validate has run over c.Repositories.
Validated == { Validate(r) : r \in Repositories }

\* Config.buildIndex: the index maps the configured name, as written, to its rule.
RepoIndex(validated) == IF validated THEN Validated ELSE Repositories

\* The zero RepositoryRule a failed lookup returns.
NoRule ==
  [Name |-> "", JobPattern |-> "", PollInterval |-> 0, Timeout |-> 0,
   SuccessCommentTemplate |-> "", FailureCommentTemplate |-> ""]

\* Config.GetRepositoryRule: exact lookup of fullName in the index.
GetRepositoryRule(validated, fullName) ==
  LET hit == { r \in RepoIndex(validated) : r.Name = fullName }
  IN  IF hit = {} THEN [ok |-> FALSE, rule |-> NoRule]
      ELSE [ok |-> TRUE, rule |-> CHOOSE r \in hit : TRUE]

\* ---------------------------------------------------------------- pattern-based configuration
\* The durations a configuration file gives at the three levels, in seconds;
\* each level has its own positive value, 0 stands for a key that is absent
\* or empty, and time.ParseDuration accepts a negative one.
GlobalDurations == {-1, 0, 1}

RepoDurations == {-1, 0, 2}

PatternDurations == {-1, 0, 3}

\* applyDefaults: 5 * time.Minute, in seconds
BuiltinWaitTimeout == 300
\* applyDefaults: 15 * time.Second, in seconds
BuiltinPollInterval == 15

\* The values no call has produced yet.
NoEffective ==
  [WaitTimeout |-> 0, PollInterval |-> 0,
   SuccessCommentTemplate |-> "", FailureCommentTemplate |-> ""]

\* The Config values yaml.Unmarshal produces: one repository with one
\* pattern, the processing defaults, and a repository name in some letter
\* case, with surrounding white space, or absent.
ConfigFiles ==
  [stage : {"file"},
   FullName : {"Org/Repo", " org/repo ", ""},
   DefaultWaitTimeout : GlobalDurations,
   DefaultPollInterval : GlobalDurations,
   repo : [WaitTimeout : RepoDurations, PollInterval : RepoDurations,
           SuccessCommentTemplate : {"", "repo: job {{ .JobURL }}"},
           FailureCommentTemplate : {"", "repo: no job"}],
   pattern : [WaitTimeout : PatternDurations, PollInterval : PatternDurations,
              SuccessCommentTemplate : {"", "pattern: job {{ .JobURL }}"},
              FailureCommentTemplate : {"", "pattern: no job"}],
   key : {""},
   query : {""},
   found : {FALSE},
   ruleFound : {FALSE},
   effective : {NoEffective}]

\* The configuration file that sets a repository name and nothing else.
MinimalConfigFile ==
  [stage |-> "file", FullName |-> "Org/Repo",
   DefaultWaitTimeout |-> 0, DefaultPollInterval |-> 0,
   repo |-> NoEffective, pattern |-> NoEffective,
   key |-> "", query |-> "", found |-> FALSE, ruleFound |-> FALSE,
   effective |-> NoEffective]

\* The repository names webhook payloads carry.
FullNames == {"org/repo", "Org/Repo", "ORG/REPO", "org/repo2", "org/other"}

\* strings.TrimSpace
TrimSpace(s) == IF s = " org/repo " THEN "org/repo" ELSE s

\* strings.ToLower
ToLower(s) ==
  IF s \in {"Org/Repo", "ORG/REPO"} THEN "org/repo" ELSE s

\* Config.applyDefaults: a processing default that is exactly zero gets the
\* built-in value.
applyDefaults(c) ==
  [c EXCEPT
     !.DefaultWaitTimeout  = IF @ = 0 THEN BuiltinWaitTimeout ELSE @,
     !.DefaultPollInterval = IF @ = 0 THEN BuiltinPollInterval ELSE @]

\* Config.validate: the repository needs a full name (the base URLs, the
\* pattern and its regex_template are present in every file considered).
validate(c) == c.FullName # ""

\* Config.indexRepositories: the name is trimmed in place and indexed under
\* its lower-case form.
indexRepositories(c) ==
  [c EXCEPT !.FullName = TrimSpace(@), !.key = ToLower(TrimSpace(c.FullName))]

\* Config.Repo: lookup under the lower-case form of fullName.
Repo(c, fullName) == c.key = ToLower(fullName)

\* Mutant of WaitTimeoutForPattern: the repository level is skipped.
WaitTimeoutForPatternSkipsRepo(c, repo, pattern) ==
  IF pattern.WaitTimeout > 0 THEN pattern.WaitTimeout
  ELSE c.DefaultWaitTimeout

\* Config.WaitTimeoutForPattern
WaitTimeoutForPattern(c, repo, pattern) ==
  IF pattern.WaitTimeout > 0 THEN pattern.WaitTimeout
  ELSE IF repo.WaitTimeout > 0 THEN repo.WaitTimeout
  ELSE c.DefaultWaitTimeout

\* Config.PollIntervalForPattern
PollIntervalForPattern(c, repo, pattern) ==
  IF pattern.PollInterval > 0 THEN pattern.PollInterval
  ELSE IF repo.PollInterval > 0 THEN repo.PollInterval
  ELSE c.DefaultPollInterval

\* Config.SuccessCommentTemplate
SuccessCommentTemplate(c, repo, pattern) ==
  IF pattern.SuccessCommentTemplate # "" THEN pattern.SuccessCommentTemplate
  ELSE IF repo.SuccessCommentTemplate # "" THEN repo.SuccessCommentTemplate
  ELSE "Jenkins job detected: {{ .JobURL }}"

\* Config.FailureCommentTemplate
FailureCommentTemplate(c, repo, pattern) ==
  IF pattern.FailureCommentTemplate # "" THEN pattern.FailureCommentTemplate
  ELSE IF repo.FailureCommentTemplate # "" THEN repo.FailureCommentTemplate
  ELSE "Jenkins job was not found within {{ .WaitDurationText }}."

\* ---------------------------------------------------------------- templates
\* executeTemplate: template.Parse rejects an action that is not closed;
\* Execute substitutes the fields of the data map (pull request 42, the job
\* job-42 when one was found) and leaves text without actions as it is.
executeTemplate(tpl) ==
  IF tpl \in {"^job-{{ .Number", "no job for PR {{ .Number"}
    THEN [err |-> TRUE, out |-> ""]
  ELSE IF tpl = "^job-{{ .Number }}$"
    THEN [err |-> FALSE, out |-> "^job-42$"]
  ELSE IF tpl = "^job-({{ .Number }}$"
    THEN [err |-> FALSE, out |-> "^job-(42$"]
  ELSE IF tpl = DefaultSuccessCommentTemplate
    THEN [err |-> FALSE, out |-> "Jenkins job job-42 detected: http://jenkins/job/job-42"]
  ELSE IF tpl = DefaultFailureCommentTemplate
    THEN [err |-> FALSE, out |-> "Jenkins job not detected for PR 42 within timeout (2)."]
  ELSE [err |-> FALSE, out |-> tpl]

\* ---------------------------------------------------------------- template language
\* longest template considered, in tokens
MaxTokens == 3

\* The pieces text/template splits a template into: literal text, a field of
\* the data ({{ .Number }}), and an action that is not closed ({{ .Number).
Tokens ==
  { [kind |-> "text",     v |-> "job-"],
    [kind |-> "field",    v |-> "Number"],
    [kind |-> "field",    v |-> "JobName"],
    [kind |-> "field",    v |-> "Branch"],
    [kind |-> "unclosed", v |-> "Number"] }

Templates == UNION { [1..n -> Tokens] : n \in 0..MaxTokens }

\* The data map processEvent builds before the watch: it has no job field.
PatternData ==
  [Number |-> "42", Title |-> "test", Repo |-> "org/repo", Sender |-> "dev",
   Timeout |-> "2"]

\* The data map once a job was found: JobName and JobURL are added.
JobData ==
  [Number |-> "42", Title |-> "test", Repo |-> "org/repo", Sender |-> "dev",
   Timeout |-> "2", JobName |-> "job-42", JobURL |-> "http://jenkins/job/job-42"]

\* The data maps a template is executed on: the pattern and the failure
\* comment on PatternData, the success comment on JobData.
DataMaps == {PatternData, JobData}

\* template.New(name).Parse(tpl): an action that is not closed is an error.
Parse(tpl) == \A i \in 1..Len(tpl) : tpl[i].kind # "unclosed"

\* t.Execute(&buf, data) on a map: a key the map lacks is written as
\* "<no value>" (the template sets no missingkey option); no error arises.
Execute(tpl, data) ==
  [i \in 1..Len(tpl) |->
     IF tpl[i].kind = "text" THEN tpl[i].v
     ELSE IF tpl[i].v \in DOMAIN data THEN data[tpl[i].v]
     ELSE "<no value>"]

\* executeTemplate on a template given by its tokens.
executeTokens(tpl, data) ==
  IF ~Parse(tpl) THEN [err |-> TRUE, out |-> <<>>]
  ELSE [err |-> FALSE, out |-> Execute(tpl, data)]

\* No executeTemplate call made yet.
NoRender == [stage |-> "none", tpl |-> <<>>, data |-> PatternData, err |-> FALSE, out |-> <<>>]

\* ---------------------------------------------------------------- webhook endpoint
\* most patterns a repository configures
MaxPatterns == 2

\* The raw bodies senders post: whether the body is JSON, and the fields
\* the handlers read from it.
Bodies ==
  [json : BOOLEAN,
   action : {"opened", "reopened", "closed"},
   FullName : {"org/repo", "Org/Repo", "other/repo", ""},
   prNumber : {0, 7},
   number : {0, 7}]

\* computeSignature: the hex HMAC-SHA256 of the payload under the secret, a
\* value that differs whenever the payload or the secret differs.
computeSignature(payload, secret) == <<"hmac-sha256", secret, payload>>

\* No X-Gitea-Signature header.
NoSignature == [prefixed |-> FALSE, hex |-> <<>>]

\* The X-Gitea-Signature headers a request on a body may carry: none, the
\* HMAC under the configured secret with and without the sha256= prefix, the
\* HMAC under another secret, and a hex string that is no HMAC of the body.
Signatures(body) ==
  { NoSignature,
    [prefixed |-> TRUE,  hex |-> computeSignature(body, "secret")],
    [prefixed |-> FALSE, hex |-> computeSignature(body, "secret")],
    [prefixed |-> TRUE,  hex |-> computeSignature(body, "guess")],
    [prefixed |-> TRUE,  hex |-> <<"deadbeef">>] }

\* The requests that reach the webhook endpoint.
Requests ==
  UNION { [method : {"POST", "GET"}, event : {"pull_request", "push"},
           signature : Signatures(body), body : {body}] : body \in Bodies }

\* normalizeSignature: the sha256= prefix is dropped.
normalizeSignature(sig) == sig.hex

\* Mutant of verifySignature: a request without the header is let through.
verifySignatureSkipsMissing(payload, signature, secret) ==
  signature = NoSignature \/ normalizeSignature(signature) = computeSignature(payload, secret)

\* verifySignature of the server: nil (TRUE) only for a header that is
\* present and equals the HMAC of the payload.
verifySignature(payload, signature, secret) ==
  /\ signature # NoSignature
  /\ normalizeSignature(signature) = computeSignature(payload, secret)

\* Handler.verifySignature of the pattern-based handler: the header is
\* trimmed, the prefix dropped, the rest hex-decoded and compared with the HMAC.
HandlerVerifySignature(secret, body, header) ==
  /\ header # NoSignature
  /\ header.hex = computeSignature(body, secret)

\* What Processor.Enqueue can answer the server's handler.
EnqueueResults == {"queued", "full", "notstarted", "panic"}

\* What a TaskQueue can answer the pattern-based handler: nil, ErrQueueFull,
\* or another error.
TaskQueueResults == {"ok", "full", "error"}

\* allowedActions
allowedActions == {"opened", "reopened"}

\* The Config of the pattern-based handler: the minimal file, loaded.
WebConfig == indexRepositories(applyDefaults(MinimalConfigFile))

\* The endpoint before any request: its secret and the number of patterns
\* of its repository.
NoServer ==
  [stage |-> "idle", secret |-> "secret", k |-> 1, handler |-> "",
   req |-> [method |-> "", event |-> "", signature |-> NoSignature,
            body |-> [json |-> FALSE, action |-> "", FullName |-> "",
                      prNumber |-> 0, number |-> 0]],
   status |-> 0, decoded |-> FALSE, res |-> <<>>, sent |-> <<>>]

\* ---------------------------------------------------------------- ticker-based WaitForJob
\* longest timeout a caller passes, in seconds
MaxTimeout == 12

\* time.NewTicker(5 * time.Second)
TickerInterval == 5

\* WaitForJob(pattern, timeout) on entry: the deadline is timeout from now,
\* the ticker fires first after one interval, and the select of the first
\* iteration creates time.After(timeout).
NoWait ==
  [pc |-> "select", timeout |-> 1, now |-> 0, tickAt |-> TickerInterval,
   afterAt |-> 1, polls |-> 0, job |-> FALSE, err |-> FALSE]

\* ---------------------------------------------------------------- server
\* most webhook handlers running at once
MaxInflight == 2

\* Server.Run not yet called.
NoRun == [pc |-> "new", inflight |-> 0]

\* ---------------------------------------------------------------- repository index
\* c.Repositories in the order of the slice.
RepoNames == <<"org/repo", "org/badtpl", "org/badre", "org/badcomment">>

\* The names workers look up.
LookupNames == {"org/repo", "other/repo"}

\* A worker not in a lookup.
NoLookup == [pc |-> "idle", name |-> "", i |-> 0, ok |-> FALSE]

\* The index of a Config returned by Load, which has called buildIndex: the
\* map holds every configured name.
LoadedIndex ==
  [isNil |-> FALSE, index |-> { RepoNames[i] : i \in 1..Len(RepoNames) },
   fatal |-> FALSE, w |-> [w \in Workers |-> NoLookup]]

\* The index of a Config built as a value, without Load: the nil map.
NilIndex == [LoadedIndex EXCEPT !.isNil = TRUE, !.index = {}]

\* ---------------------------------------------------------------- check command
\* most repositories a checked configuration lists
MaxRepos == 2

\* checkResult with no check made, and whether an error line was printed.
NoResult == [passed |-> 0, errors |-> 0, warnings |-> 0, reported |-> FALSE]

\* result.passed++ after a check mark line
Passed(result) == [result EXCEPT !.passed = @ + 1]

\* result.errors++ after an error line
Failed(result) == [result EXCEPT !.errors = @ + 1, !.reported = TRUE]

\* result.warnings++ after a warning line
Warned(result) == [result EXCEPT !.warnings = @ + 1]

\* What the two services answer the checks of one repository: whether its
\* name splits into owner/repo, Gitea has it, a job_root is configured and
\* exists, GetJobs succeeds and returns jobs, the pattern compiles and
\* matches one of them.
RepoChecks ==
  [nameOk : BOOLEAN, repoOk : BOOLEAN, hasRoot : BOOLEAN, rootOk : BOOLEAN,
   jobsOk : BOOLEAN, hasJobs : BOOLEAN, patternOk : BOOLEAN, matched : BOOLEAN]

\* checkRepository: steps 7.1 to 7.4 on one repository; the first error
\* ends the checks of this repository.
checkRepository(result, c) ==
  IF ~c.nameOk THEN Failed(result)
  ELSE IF ~c.repoOk THEN Failed(result)
  ELSE IF c.hasRoot /\ ~c.rootOk THEN Failed(Passed(result))
  ELSE LET r2 == IF c.hasRoot THEN Passed(Passed(result)) ELSE Passed(result) IN
       IF ~c.jobsOk THEN Failed(r2)
       ELSE IF ~c.hasJobs THEN Warned(Warned(r2))
       ELSE IF ~c.patternOk THEN Failed(Passed(r2))
       ELSE IF c.matched THEN Passed(Passed(r2))
       ELSE Failed(Passed(r2))

\* Mutant of exitCode: warnings fail the run too.
exitCodeCountsWarnings(result) == IF result.errors + result.warnings > 0 THEN 1 ELSE 0

\* The end of checkCommand: os.Exit(1) if result.errors > 0, else os.Exit(0).
exitCode(result) == IF result.errors > 0 THEN 1 ELSE 0

\* checkCommand about to run stage 1 on a configuration of n repositories.
NoCheck ==
  [pc |-> 1, n |-> 0, i |-> 0, result |-> NoResult, ran |-> {}, failedAt |-> 0,
   exit |-> -1]

\* regexp.Compile: an unclosed group is rejected.
regexpCompile(pattern) == pattern # "^job-(42$"

\* The pull-request events the webhook endpoint hands to Enqueue.
Events ==
  { [FullName |-> "org/repo",       Action |-> "opened"],
    [FullName |-> "org/repo",       Action |-> "closed"],
    [FullName |-> "other/repo",     Action |-> "opened"],
    [FullName |-> "",               Action |-> "opened"],
    [FullName |-> "org/badtpl",     Action |-> "opened"],
    [FullName |-> "org/badre",      Action |-> "opened"],
    [FullName |-> "org/badcomment", Action |-> "opened"] }

NoEvent == [FullName |-> "", Action |-> ""]

\* What the build server answers to one findJob: a matching job, no matching
\* job, or an error.
Answers == {"found", "none", "error"}

\* ---------------------------------------------------------------- state
VARIABLES
  cfgValidated,  \* whether the Config went through Load/Validate
  started,       \* Processor.started
  closed,        \* whether close(p.queue) has run
  queue,         \* Processor.queue: buffered task ids, oldest first
  wg,            \* Processor.wg: the WaitGroup counter
  mu,            \* Processor.mu: "free", or "dead" once a holder panicked
  nextTask,      \* id the next accepted event gets
  tasks,         \* per accepted event: the event, its status, what was done for it
  pc,            \* per worker: position in worker / processEvent / WaitForJob
  cur,           \* per worker: the task it is processing (0: none)
  elapsed,       \* per worker: ticks since its WaitForJob began (saturating)
  ticker,        \* per worker: whether ticker.C holds a tick
  job,           \* per worker: whether WaitForJob returned a job
  attempt,       \* per worker: findJob calls of its WaitForJob so far
  err,           \* per worker: the error WaitForJob returned
  stopPc,        \* the Stop call that closed the queue: idle, waiting, returned
  stopWaited,    \* ticks that Stop call has spent in wg.Wait (saturating)
  pendingAtStop, \* whether accepted events were unfinished when the queue was closed
  closeOfClosed, \* a Stop call ran close on the closed queue
  crashed,       \* an unrecovered panic ended the process
  cfg,           \* the pattern-based Config: as read from its file, then as Load returns it
  tmpl,          \* the last executeTemplate call: its template, its data, what it returned
  web,           \* the webhook endpoint: its settings, the request in hand, the answer given
  chk,           \* the check command: its stage, its counters, its exit code
  idx,           \* the repository index of the shared Config and the lookups under way
  srv,           \* Server.Run: its position, and the webhook handlers yet to call Enqueue
  tw             \* one call of the ticker-based WaitForJob(pattern, timeout)

procVars == <<cfgValidated, started, closed, queue, wg, mu, nextTask, tasks, pc, cur,
              elapsed, ticker, job, attempt, err, stopPc, stopWaited, pendingAtStop,
              closeOfClosed, crashed>>

vars == <<procVars, cfg, tmpl, web, chk, idx, srv, tw>>

NewTask ==
  [evt |-> NoEvent, status |-> "new", runs |-> 0, watches |-> 0, posts |-> 0,
   comment |-> ""]

InitCommon ==
  /\ started = FALSE
  /\ closed = FALSE
  /\ queue = <<>>
  /\ wg = 0
  /\ mu = "free"
  /\ nextTask = 1
  /\ tasks = [t \in TaskIds |-> NewTask]
  /\ pc = [w \in Workers |-> "none"]
  /\ cur = [w \in Workers |-> 0]
  /\ elapsed = [w \in Workers |-> 0]
  /\ ticker = [w \in Workers |-> FALSE]
  /\ job = [w \in Workers |-> FALSE]
  /\ attempt = [w \in Workers |-> 0]
  /\ err = [w \in Workers |-> "nil"]
  /\ stopPc = "idle"
  /\ stopWaited = 0
  /\ pendingAtStop = FALSE
  /\ closeOfClosed = FALSE
  /\ crashed = FALSE

\* processor.New on a Config returned by config.Load
Init == cfgValidated = TRUE /\ InitCommon /\ cfg = MinimalConfigFile /\ tmpl = NoRender /\ web = NoServer /\ chk = NoCheck /\ idx = LoadedIndex /\ srv = NoRun /\ tw = NoWait

\* processor.New on any Config value, validated or not
InitAnyConfig == cfgValidated \in BOOLEAN /\ InitCommon /\ cfg = MinimalConfigFile /\ tmpl = NoRender /\ web = NoServer /\ chk = NoCheck /\ idx = LoadedIndex /\ srv = NoRun /\ tw = NoWait

\* The processor not yet started, and any configuration file about to be loaded.
InitConfig == cfgValidated = TRUE /\ InitCommon /\ cfg \in ConfigFiles /\ tmpl = NoRender /\ web = NoServer /\ chk = NoCheck /\ idx = LoadedIndex /\ srv = NoRun /\ tw = NoWait


\* ---------------------------------------------------------------- Processor
\* Mutant of Start: the started flag is not tested, every call spawns.
StartAlwaysSpawns ==
  /\ ~crashed
  /\ mu = "free"
  /\ wg' = wg + WorkerPoolSize
  /\ pc' = [w \in Workers |-> "recv"]
  /\ started' = TRUE
  /\ UNCHANGED <<cfg, tmpl, web, chk, idx, srv, tw, err, attempt, cfgValidated, closed, queue, mu, nextTask, tasks, cur, elapsed,
                 ticker, job, stopPc, stopWaited, pendingAtStop, closeOfClosed, crashed>>

\* Processor.Start: under p.mu; a started processor only logs a warning.
Start ==
  /\ ~crashed
  /\ mu = "free"
  /\ IF started
       THEN UNCHANGED <<started, wg, pc>>
       ELSE /\ wg' = wg + WorkerPoolSize
            /\ pc' = [w \in Workers |-> "recv"]
            /\ started' = TRUE
  /\ UNCHANGED <<cfg, tmpl, web, chk, idx, srv, tw, err, attempt, cfgValidated, closed, queue, mu, nextTask, tasks, cur, elapsed,
                 ticker, job, stopPc, stopWaited, pendingAtStop, closeOfClosed, crashed>>

\* Mutant of EnqueueResult: the started flag is not tested.
EnqueueResultSkipsStarted ==
  IF closed THEN "panic"
  ELSE IF Len(queue) < QueueSize THEN "queued"
  ELSE "full"

\* Mutant of EnqueueResult: the capacity test is off by one.
EnqueueResultOffByOne ==
  IF ~started THEN "notstarted"
  ELSE IF closed THEN "panic"
  ELSE IF Len(queue) <= QueueSize THEN "queued"
  ELSE "full"

\* What one Enqueue call does, decided under p.mu: the not-started error, the
\* select's send (which panics on a closed channel; the HTTP server recovers a
\* handler's panic), or its default branch.
EnqueueResult ==
  IF ~started THEN "notstarted"
  ELSE IF closed THEN "panic"
  ELSE IF Len(queue) < QueueSize THEN "queued"
  ELSE "full"

\* The body of Processor.Enqueue(evt); the deferred Unlock releases p.mu on
\* every path. (The state of the calling server, srv, is left to the caller.)
EnqueueCall(e) ==
  /\ ~crashed
  /\ mu = "free"
  /\ (EnqueueResult = "queued" => nextTask <= MaxTasks)
  /\ IF EnqueueResult = "queued"
       THEN /\ tasks' = [tasks EXCEPT ![nextTask] = [@ EXCEPT !.evt = e, !.status = "queued"]]
            /\ queue' = Append(queue, nextTask)
            /\ nextTask' = nextTask + 1
       ELSE UNCHANGED <<tasks, queue, nextTask>>
  /\ UNCHANGED <<cfg, tmpl, web, chk, idx, tw, err, attempt, cfgValidated, started, closed, wg, mu, pc, cur, elapsed, ticker,
                 job, stopPc, stopWaited, pendingAtStop, closeOfClosed, crashed>>

\* Processor.Enqueue(evt), called on the processor directly.
Enqueue(e) == EnqueueCall(e) /\ UNCHANGED srv

\* The accepted events whose processing has not ended.
Pending == { t \in TaskIds : tasks[t].status \in {"queued", "running"} }

\* Processor.Stop up to wg.Wait: returns at once when not started; otherwise
\* closes the queue under p.mu. started is never reset, so a Stop after a Stop
\* closes the closed channel and panics before p.mu.Unlock; no caller of Stop
\* recovers, and the process ends.
Stop ==
  /\ ~crashed
  /\ mu = "free"
  /\ IF ~started
       THEN UNCHANGED <<closed, mu, stopPc, stopWaited, pendingAtStop, closeOfClosed, crashed>>
       ELSE IF closed
         THEN /\ closeOfClosed' = TRUE
              /\ mu' = "dead"
              /\ crashed' = TRUE
              /\ UNCHANGED <<closed, stopPc, stopWaited, pendingAtStop>>
         ELSE /\ closed' = TRUE
              /\ stopPc' = "waiting"
              /\ stopWaited' = 0
              /\ pendingAtStop' = (Pending # {})
              /\ UNCHANGED <<mu, closeOfClosed, crashed>>
  /\ UNCHANGED <<cfg, tmpl, web, chk, idx, srv, tw, err, attempt, cfgValidated, started, queue, wg, nextTask, tasks, pc, cur, elapsed,
                 ticker, job>>

\* Mutant of StopReturn: Stop returns without wg.Wait.
StopReturnNoWait ==
  /\ ~crashed
  /\ stopPc = "waiting"
  /\ stopPc' = "returned"
  /\ stopWaited' = 0
  /\ UNCHANGED <<cfg, tmpl, web, chk, idx, srv, tw, err, attempt, cfgValidated, started, closed, queue, wg, mu, nextTask,
                 tasks, pc, cur, elapsed, ticker, job, pendingAtStop, closeOfClosed,
                 crashed>>

\* Processor.Stop: wg.Wait returns when every worker has called wg.Done.
StopReturn ==
  /\ ~crashed
  /\ stopPc = "waiting"
  /\ wg = 0
  /\ stopPc' = "returned"
  /\ stopWaited' = 0
  /\ UNCHANGED <<cfg, tmpl, web, chk, idx, srv, tw, err, attempt, cfgValidated, started, closed, queue, wg, mu, nextTask, tasks, pc,
                 cur, elapsed, ticker, job, pendingAtStop, closeOfClosed, crashed>>

\* ---------------------------------------------------------------- worker
\* Mutant of Outcome: the ok result of GetRepositoryRule is not tested.
OutcomeSkipsRuleCheck(evt) ==
  LET found    == GetRepositoryRule(cfgValidated, evt.FullName)
      rendered == executeTemplate(found.rule.JobPattern)
  IN  IF evt.FullName = "" THEN "no_repository"
      ELSE IF evt.Action # "opened" /\ evt.Action # "reopened" THEN "ignored_action"
      ELSE IF rendered.err THEN "template_error"
      ELSE IF ~regexpCompile(rendered.out) THEN "pattern_error"
      ELSE "watch"

\* Mutant of Outcome: the action of the event is not tested.
OutcomeSkipsActionCheck(evt) ==
  LET found    == GetRepositoryRule(cfgValidated, evt.FullName)
      rendered == executeTemplate(found.rule.JobPattern)
  IN  IF evt.FullName = "" THEN "no_repository"
      ELSE IF ~found.ok THEN "not_configured"
      ELSE IF rendered.err THEN "template_error"
      ELSE IF ~regexpCompile(rendered.out) THEN "pattern_error"
      ELSE "watch"

\* Mutant of Outcome: the error of regexp.Compile is not checked.
OutcomeIgnoresCompileError(evt) ==
  LET found    == GetRepositoryRule(cfgValidated, evt.FullName)
      rendered == executeTemplate(found.rule.JobPattern)
  IN  IF evt.FullName = "" THEN "no_repository"
      ELSE IF ~found.ok THEN "not_configured"
      ELSE IF evt.Action # "opened" /\ evt.Action # "reopened" THEN "ignored_action"
      ELSE IF rendered.err THEN "template_error"
      ELSE "watch"

\* processEvent up to the call of WaitForJob: where the event leaves the
\* pipeline, or "watch" when WaitForJob is called.
Outcome(evt) ==
  LET found    == GetRepositoryRule(cfgValidated, evt.FullName)
      rendered == executeTemplate(found.rule.JobPattern)
  IN  IF evt.FullName = "" THEN "no_repository"
      ELSE IF ~found.ok THEN "not_configured"
      ELSE IF evt.Action # "opened" /\ evt.Action # "reopened" THEN "ignored_action"
      ELSE IF rendered.err THEN "template_error"
      ELSE IF ~regexpCompile(rendered.out) THEN "pattern_error"
      ELSE "watch"

\* Mutant of EndTask: a worker whose event failed leaves the range loop.
EndTaskWorkerDies(w, t, status) ==
  /\ tasks' = [tasks EXCEPT ![t] = [@ EXCEPT !.status = status, !.runs = @ + 1]]
  /\ pc' = [pc EXCEPT ![w] = IF status = "pattern_error" THEN "dead" ELSE "recv"]
  /\ UNCHANGED cur

\* processEvent returned before WaitForJob: the worker is back at the range
\* loop.
EndTask(w, t, status) ==
  /\ tasks' = [tasks EXCEPT ![t] = [@ EXCEPT !.status = status, !.runs = @ + 1]]
  /\ pc' = [pc EXCEPT ![w] = "recv"]
  /\ UNCHANGED cur

\* Mutant of WaitForJobEntry: the loop waits in the select before its first
\* findJob.
WaitForJobEntryWaits(r) == [attempt |-> 0, answer |-> "none"]

\* WaitForJob, first iteration of the loop: attempt becomes 1 and findJob is
\* called at once, before any select; the build server answers r.
WaitForJobEntry(r) == [attempt |-> 1, answer |-> r]

\* processEvent(ctx, evt) for the event t, through the first iteration of
\* WaitForJob: the early returns, then context.WithTimeout and
\* time.NewTicker(interval), which panics on a non-positive interval (the
\* worker goroutine recovers nothing, so that panic ends the process), then
\* the first findJob, which the build server answers with r: an error and a
\* match both return from WaitForJob, no match goes on to the select.
processEvent(w, t, r) ==
  LET rule    == GetRepositoryRule(cfgValidated, tasks[t].evt.FullName).rule
      outcome == Outcome(tasks[t].evt)
  IN  IF outcome # "watch"
        THEN /\ EndTask(w, t, outcome)
             /\ UNCHANGED <<elapsed, ticker, job, attempt, err, crashed>>
        ELSE IF rule.PollInterval <= 0
          THEN /\ crashed' = TRUE
               /\ tasks' = [tasks EXCEPT ![t] = [@ EXCEPT !.status = "panic", !.runs = @ + 1]]
               /\ cur' = [cur EXCEPT ![w] = t]
               /\ UNCHANGED <<pc, elapsed, ticker, job, attempt, err>>
          ELSE /\ tasks' = [tasks EXCEPT ![t] =
                              [@ EXCEPT !.status = "running", !.runs = @ + 1,
                                        !.watches = @ + 1]]
               /\ cur' = [cur EXCEPT ![w] = t]
               /\ pc' = [pc EXCEPT ![w] =
                            IF WaitForJobEntry(r).answer = "none" THEN "select" ELSE "report"]
               /\ elapsed' = [elapsed EXCEPT ![w] = 0]
               /\ ticker' = [ticker EXCEPT ![w] = FALSE]
               /\ job' = [job EXCEPT ![w] = (WaitForJobEntry(r).answer = "found")]
               /\ attempt' = [attempt EXCEPT ![w] = WaitForJobEntry(r).attempt]
               /\ err' = [err EXCEPT ![w] =
                             IF WaitForJobEntry(r).answer = "error" THEN "request" ELSE "nil"]
               /\ UNCHANGED crashed

\* Mutant of Receive: the event is read but left in the queue.
ReceiveNoRemove(w, r) ==
  /\ ~crashed
  /\ pc[w] = "recv"
  /\ queue # <<>>
  /\ processEvent(w, Head(queue), r)
  /\ UNCHANGED <<cfg, tmpl, web, chk, idx, srv, tw, cfgValidated, started, closed, queue, wg, mu, nextTask,
                 stopPc, stopWaited, pendingAtStop, closeOfClosed>>

\* worker: `for evt := range p.queue` receives the oldest buffered event and
\* calls processEvent on it.
Receive(w, r) ==
  /\ ~crashed
  /\ pc[w] = "recv"
  /\ queue # <<>>
  /\ queue' = Tail(queue)
  /\ processEvent(w, Head(queue), r)
  /\ UNCHANGED <<cfg, tmpl, web, chk, idx, srv, tw, cfgValidated, started, closed, wg, mu, nextTask, stopPc,
                 stopWaited, pendingAtStop, closeOfClosed>>

\* Mutant of WorkerExit: the loop ends on a closed queue that still holds events.
WorkerExitLeavesBuffer(w) ==
  /\ ~crashed
  /\ pc[w] = "recv"
  /\ closed
  /\ pc' = [pc EXCEPT ![w] = "exited"]
  /\ wg' = wg - 1
  /\ UNCHANGED <<cfg, tmpl, web, chk, idx, srv, tw, err, attempt, cfgValidated, started, closed, queue, mu, nextTask, tasks, cur,
                 elapsed, ticker, job, stopPc, stopWaited, pendingAtStop, closeOfClosed, crashed>>

\* worker: the range loop ends on a closed, drained queue; the deferred
\* function calls wg.Done.
WorkerExit(w) ==
  /\ ~crashed
  /\ pc[w] = "recv"
  /\ queue = <<>>
  /\ closed
  /\ pc' = [pc EXCEPT ![w] = "exited"]
  /\ wg' = wg - 1
  /\ UNCHANGED <<cfg, tmpl, web, chk, idx, srv, tw, err, attempt, cfgValidated, started, closed, queue, mu, nextTask, tasks, cur,
                 elapsed, ticker, job, stopPc, stopWaited, pendingAtStop, closeOfClosed, crashed>>

\* The rule processEvent looked up for the worker's current event.
RuleOf(w) == GetRepositoryRule(cfgValidated, tasks[cur[w]].evt.FullName).rule

\* Mutant of CtxDone: the derived context has no deadline.
CtxDoneNever(w) == FALSE

\* ctx.Done() of the context WaitForJob derived with the rule's timeout.
CtxDone(w) == elapsed[w] >= RuleOf(w).Timeout

\* Mutant of findJob: the request succeeds on an expired context too.
findJobIgnoresCtx(w, r) == r

\* Client.findJob at one poll: a request on an expired context fails; otherwise
\* the build server answers r: a matching job, no matching job, or an error.
findJob(w, r) == IF CtxDone(w) THEN "error" ELSE r

\* The error findJob returns: the deadline error of an expired context, the
\* error of a failed request, or nil.
findJobErr(w, r) ==
  IF CtxDone(w) THEN "deadline" ELSE IF r = "error" THEN "request" ELSE "nil"

\* Mutant of ctxErr: the select returns a nil error.
ctxErrNil(w) == "nil"

\* ctx.Err() of the derived context: context.DeadlineExceeded once the
\* timeout has passed (the parent is context.Background(), never cancelled).
ctxErr(w) == IF CtxDone(w) THEN "deadline" ELSE "nil"

\* WaitForJob, select: case <-ctx.Done() returns (nil, ctx.Err()).
SelectDone(w) ==
  /\ ~crashed
  /\ pc[w] = "select"
  /\ CtxDone(w)
  /\ pc' = [pc EXCEPT ![w] = "report"]
  /\ job' = [job EXCEPT ![w] = FALSE]
  /\ err' = [err EXCEPT ![w] = ctxErr(w)]
  /\ UNCHANGED <<cfg, tmpl, web, chk, idx, srv, tw, attempt, cfgValidated, started, closed, queue, wg, mu, nextTask, tasks, cur,
                 elapsed, ticker, stopPc, stopWaited, pendingAtStop, closeOfClosed, crashed>>

\* WaitForJob, select: case <-ticker.C starts the next iteration, whose
\* findJob decides as the first one did.
SelectTick(w, r) ==
  /\ ~crashed
  /\ pc[w] = "select"
  /\ ticker[w]
  /\ ticker' = [ticker EXCEPT ![w] = FALSE]
  /\ pc' = [pc EXCEPT ![w] = IF findJob(w, r) = "none" THEN "select" ELSE "report"]
  /\ job' = [job EXCEPT ![w] = (findJob(w, r) = "found")]
  /\ err' = [err EXCEPT ![w] = findJobErr(w, r)]
  /\ attempt' = [attempt EXCEPT ![w] = @ + 1]
  /\ UNCHANGED <<cfg, tmpl, web, chk, idx, srv, tw, cfgValidated, started, closed, queue, wg, mu, nextTask, tasks, cur,
                 elapsed, stopPc, stopWaited, pendingAtStop, closeOfClosed, crashed>>

\* Mutant of CommentBody: the failure template is used whatever the watch
\* returned.
CommentBodyAlwaysFailure(w) == executeTemplate(RuleOf(w).FailureCommentTemplate)

\* The comment body processEvent renders once WaitForJob has returned: from
\* the success template when a job was found, from the failure template
\* otherwise.
CommentBody(w) ==
  executeTemplate(IF job[w] THEN RuleOf(w).SuccessCommentTemplate
                  ELSE RuleOf(w).FailureCommentTemplate)

\* Mutant of Report: a failed PostComment is tried again.
ReportRetries(w, posted) ==
  /\ ~crashed
  /\ pc[w] = "report"
  /\ tasks' = [tasks EXCEPT ![cur[w]] =
                 [@ EXCEPT !.posts = @ + 1,
                           !.comment = CommentBody(w).out,
                           !.status = IF posted THEN "posted" ELSE "running"]]
  /\ cur' = [cur EXCEPT ![w] = IF posted THEN 0 ELSE cur[w]]
  /\ pc' = [pc EXCEPT ![w] = IF posted THEN "recv" ELSE "report"]
  /\ UNCHANGED <<cfg, tmpl, web, chk, idx, srv, tw, err, attempt, cfgValidated, started, closed, queue, wg, mu, nextTask,
                 elapsed, ticker, job, stopPc, stopWaited, pendingAtStop, closeOfClosed,
                 crashed>>

\* Mutant of Report: the comment is posted while the watch is still polling.
ReportWhileWatching(w, posted) ==
  /\ ~crashed
  /\ pc[w] \in {"select", "report"}
  /\ tasks' = [tasks EXCEPT ![cur[w]] =
                 IF CommentBody(w).err
                   THEN [@ EXCEPT !.status = "comment_error"]
                   ELSE [@ EXCEPT !.posts = @ + 1,
                                  !.comment = CommentBody(w).out,
                                  !.status = IF posted THEN "posted" ELSE "post_failed"]]
  /\ cur' = [cur EXCEPT ![w] = 0]
  /\ pc' = [pc EXCEPT ![w] = "recv"]
  /\ elapsed' = [elapsed EXCEPT ![w] = 0]
  /\ ticker' = [ticker EXCEPT ![w] = FALSE]
  /\ job' = [job EXCEPT ![w] = FALSE]
  /\ err' = [err EXCEPT ![w] = "nil"]
  /\ attempt' = [attempt EXCEPT ![w] = 0]
  /\ UNCHANGED <<cfg, tmpl, web, chk, idx, srv, tw, cfgValidated, started, closed, queue, wg, mu, nextTask, stopPc,
                 stopWaited, pendingAtStop, closeOfClosed, crashed>>

\* processEvent after WaitForJob returned: the comment body is rendered, and a
\* template error ends the event without a comment; otherwise there is one
\* PostComment call whose result (posted) is only logged. The ticker and the
\* context of the finished WaitForJob call are gone.
Report(w, posted) ==
  /\ ~crashed
  /\ pc[w] = "report"
  /\ tasks' = [tasks EXCEPT ![cur[w]] =
                 IF CommentBody(w).err
                   THEN [@ EXCEPT !.status = "comment_error"]
                   ELSE [@ EXCEPT !.posts = @ + 1,
                                  !.comment = CommentBody(w).out,
                                  !.status = IF posted THEN "posted" ELSE "post_failed"]]
  /\ cur' = [cur EXCEPT ![w] = 0]
  /\ pc' = [pc EXCEPT ![w] = "recv"]
  /\ elapsed' = [elapsed EXCEPT ![w] = 0]
  /\ ticker' = [ticker EXCEPT ![w] = FALSE]
  /\ job' = [job EXCEPT ![w] = FALSE]
  /\ err' = [err EXCEPT ![w] = "nil"]
  /\ attempt' = [attempt EXCEPT ![w] = 0]
  /\ UNCHANGED <<cfg, tmpl, web, chk, idx, srv, tw, cfgValidated, started, closed, queue, wg, mu, nextTask, stopPc,
                 stopWaited, pendingAtStop, closeOfClosed, crashed>>

\* ---------------------------------------------------------------- time
Watching(w) == pc[w] = "select" /\ ~CtxDone(w)

StopWaiting == stopPc = "waiting" /\ stopWaited < ShutdownDeadline

\* One tick passes: every running watch's clock advances (its ticker fires on
\* each multiple of the interval) and so does the clock of a waiting Stop.
Tick ==
  /\ ~crashed
  /\ (StopWaiting \/ \E w \in Workers : Watching(w))
  /\ elapsed' = [w \in Workers |-> IF Watching(w) THEN elapsed[w] + 1 ELSE elapsed[w]]
  /\ ticker' = [w \in Workers |->
                  IF Watching(w) /\ (elapsed[w] + 1) % RuleOf(w).PollInterval = 0
                    THEN TRUE ELSE ticker[w]]
  /\ stopWaited' = IF StopWaiting THEN stopWaited + 1 ELSE stopWaited
  /\ UNCHANGED <<cfg, tmpl, web, chk, idx, srv, tw, err, attempt, cfgValidated, started, closed, queue, wg, mu, nextTask, tasks, pc,
                 cur, job, stopPc, pendingAtStop, closeOfClosed, crashed>>

\* ---------------------------------------------------------------- configuration loading
\* config.Load: applyDefaults, validate, indexRepositories; a file that does
\* not validate is rejected.
Load ==
  /\ cfg.stage = "file"
  /\ cfg' = IF validate(applyDefaults(cfg))
              THEN [indexRepositories(applyDefaults(cfg)) EXCEPT !.stage = "loaded"]
              ELSE [cfg EXCEPT !.stage = "rejected"]
  /\ UNCHANGED <<procVars, tmpl, web, chk, idx, srv, tw>>

\* The rule lookup for the repository name of a webhook payload: Config.Repo
\* of the pattern-based Config, and Config.GetRepositoryRule of the Config
\* the processor uses, on the same name.
Lookup(fullName) ==
  /\ cfg.stage = "loaded"
  /\ cfg' = [cfg EXCEPT !.stage = "looked",
                        !.query = fullName,
                        !.found = Repo(cfg, fullName),
                        !.ruleFound = GetRepositoryRule(cfgValidated, fullName).ok]
  /\ UNCHANGED <<procVars, tmpl, web, chk, idx, srv, tw>>

\* The effective values of the pattern of the repository found, as the task
\* for it takes them from the Config.
Resolve ==
  /\ cfg.stage = "looked"
  /\ cfg.found
  /\ cfg' = [cfg EXCEPT
               !.stage = "resolved",
               !.effective =
                  [WaitTimeout  |-> WaitTimeoutForPattern(cfg, cfg.repo, cfg.pattern),
                   PollInterval |-> PollIntervalForPattern(cfg, cfg.repo, cfg.pattern),
                   SuccessCommentTemplate |->
                     SuccessCommentTemplate(cfg, cfg.repo, cfg.pattern),
                   FailureCommentTemplate |->
                     FailureCommentTemplate(cfg, cfg.repo, cfg.pattern)]]
  /\ UNCHANGED <<procVars, tmpl, web, chk, idx, srv, tw>>

\* ---------------------------------------------------------------- template rendering
\* One executeTemplate call on a template and a data map.
Render(tpl, data) ==
  /\ tmpl.stage = "none"
  /\ tmpl' = [stage |-> "done", tpl |-> tpl, data |-> data,
              err |-> executeTokens(tpl, data).err,
              out |-> executeTokens(tpl, data).out]
  /\ UNCHANGED <<procVars, cfg, web, chk, idx, srv, tw>>

\* ---------------------------------------------------------------- ticker-based WaitForJob steps
\* A second passes while the select has no ready case.
WaitSecond ==
  /\ tw.pc = "select"
  /\ tw.now < tw.tickAt /\ tw.now < tw.afterAt
  /\ tw' = [tw EXCEPT !.now = @ + 1]
  /\ UNCHANGED <<procVars, cfg, tmpl, web, chk, idx, srv>>

\* case <-ticker.C: FindJobByPattern, answered r by the build server; an
\* error and a job return; otherwise a passed deadline returns (nil, nil),
\* else the loop starts its next select, which creates a new
\* time.After(timeout).
WaitTicker(r) ==
  /\ tw.pc = "select"
  /\ tw.now >= tw.tickAt
  /\ tw' = IF r = "none" /\ tw.now < tw.timeout
              THEN [tw EXCEPT !.polls = @ + 1,
                              !.tickAt = @ + TickerInterval,
                              !.afterAt = tw.now + tw.timeout]
              ELSE [tw EXCEPT !.polls = @ + 1, !.pc = "returned",
                              !.job = (r = "found"), !.err = (r = "error")]
  /\ UNCHANGED <<procVars, cfg, tmpl, web, chk, idx, srv>>

\* case <-time.After(timeout): return nil, nil.
WaitAfter ==
  /\ tw.pc = "select"
  /\ tw.now >= tw.afterAt
  /\ tw' = [tw EXCEPT !.pc = "returned"]
  /\ UNCHANGED <<procVars, cfg, tmpl, web, chk, idx, srv>>

\* ---------------------------------------------------------------- Server.Run
\* Run: s.processor.Start(), the first statement.
RunStart ==
  /\ srv.pc = "new"
  /\ ~started
  /\ Start

\* Run: the goroutine calls ListenAndServe and the listener accepts.
RunListen ==
  /\ srv.pc = "new"
  /\ started
  /\ srv' = [srv EXCEPT !.pc = "serving"]
  /\ UNCHANGED <<procVars, cfg, tmpl, web, chk, idx, tw>>

\* The HTTP server accepts a webhook request and starts its handler.
Accept ==
  /\ srv.pc = "serving"
  /\ srv.inflight < MaxInflight
  /\ srv' = [srv EXCEPT !.inflight = @ + 1]
  /\ UNCHANGED <<procVars, cfg, tmpl, web, chk, idx, tw>>

\* handleWebhook answers before Enqueue (event header, body, signature, JSON).
HandlerReject ==
  /\ srv.inflight > 0
  /\ srv' = [srv EXCEPT !.inflight = @ - 1]
  /\ UNCHANGED <<procVars, cfg, tmpl, web, chk, idx, tw>>

\* handleWebhook calls s.processor.Enqueue(prEvent) and answers.
HandlerEnqueue(e) ==
  /\ srv.inflight > 0
  /\ srv' = [srv EXCEPT !.inflight = @ - 1]
  /\ EnqueueCall(e)

\* Run: ctx is cancelled, Run calls s.server.Shutdown with a 10 s deadline;
\* the listener is closed, the handlers under way go on.
RunShutdown ==
  /\ srv.pc \in {"new", "serving"}
  /\ started
  /\ srv' = [srv EXCEPT !.pc = "shutdown"]
  /\ UNCHANGED <<procVars, cfg, tmpl, web, chk, idx, tw>>

\* Run: ListenAndServe fails, Run takes the error from errCh.
RunListenError ==
  /\ srv.pc = "serving"
  /\ srv' = [srv EXCEPT !.pc = "failed"]
  /\ UNCHANGED <<procVars, cfg, tmpl, web, chk, idx, tw>>

\* Run returns and its deferred s.processor.Stop() runs: after Shutdown
\* returned nil (no handler under way), after Shutdown returned the deadline
\* error (handlers still under way), or with the error of ListenAndServe.
RunStop ==
  /\ srv.pc \in {"shutdown", "failed"}
  /\ ~closed
  /\ Stop

\* ---------------------------------------------------------------- rule lookup
\* GetRepositoryRule called by a worker (processEvent): the test
\* c.RepoIndex == nil.
LookupBegin(w, name) ==
  /\ ~idx.fatal
  /\ idx.w[w].pc = "idle"
  /\ idx' = [idx EXCEPT !.w[w] = [pc |-> IF idx.isNil THEN "make" ELSE "read",
                                   name |-> name, i |-> 0, ok |-> FALSE]]
  /\ UNCHANGED <<procVars, cfg, tmpl, web, chk, srv, tw>>

\* buildIndex: c.RepoIndex = make(map[string]RepoID, len(c.Repositories)).
LookupMake(w) ==
  /\ ~idx.fatal
  /\ idx.w[w].pc = "make"
  /\ idx' = [idx EXCEPT !.isNil = FALSE, !.index = {}, !.w[w].pc = "fill", !.w[w].i = 1]
  /\ UNCHANGED <<procVars, cfg, tmpl, web, chk, srv, tw>>

\* buildIndex: c.RepoIndex[repo.Name] = RepoID{Rule: repo} for the next
\* repository, into the map the field holds now.  While another worker is
\* also writing the map the runtime may stop the process ("concurrent map
\* writes"), or the write goes through.
LookupInsert(w, detected) ==
  /\ ~idx.fatal
  /\ idx.w[w].pc = "fill"
  /\ detected => \E v \in Workers \ {w} : idx.w[v].pc = "fill"
  /\ idx' = IF detected
              THEN [idx EXCEPT !.fatal = TRUE]
              ELSE [idx EXCEPT !.index = @ \cup {RepoNames[idx.w[w].i]},
                               !.w[w].i = @ + 1,
                               !.w[w].pc = IF idx.w[w].i = Len(RepoNames) THEN "read"
                                           ELSE "fill"]
  /\ UNCHANGED <<procVars, cfg, tmpl, web, chk, srv, tw>>

\* GetRepositoryRule: repo, ok := c.RepoIndex[fullName].
LookupRead(w) ==
  /\ ~idx.fatal
  /\ idx.w[w].pc = "read"
  /\ idx' = [idx EXCEPT !.w[w].pc = "done", !.w[w].ok = (idx.w[w].name \in idx.index)]
  /\ UNCHANGED <<procVars, cfg, tmpl, web, chk, srv, tw>>

\* The worker goes on with the rule it got and later takes the next event.
LookupReturn(w) ==
  /\ ~idx.fatal
  /\ idx.w[w].pc = "done"
  /\ idx' = [idx EXCEPT !.w[w] = NoLookup]
  /\ UNCHANGED <<procVars, cfg, tmpl, web, chk, srv, tw>>

\* ---------------------------------------------------------------- check command stages
\* Stages 1 to 5 of checkCommand (the file exists, Load, validateServerConfig,
\* Jenkins and Gitea CheckAccessibility): a failure prints an error and
\* exits 1 at once, counted in result.errors from stage 3 on; a success
\* counts as passed from stage 2 on.
CriticalStage(ok) ==
  /\ chk.pc \in 1..5
  /\ chk' = IF ok
              THEN [chk EXCEPT !.pc = @ + 1,
                               !.ran = @ \cup {chk.pc},
                               !.result = IF chk.pc >= 2 THEN Passed(@) ELSE @]
              ELSE [chk EXCEPT !.pc = 0,
                               !.ran = @ \cup {chk.pc},
                               !.failedAt = chk.pc,
                               !.result = IF chk.pc >= 3 THEN Failed(@)
                                          ELSE [@ EXCEPT !.reported = TRUE],
                               !.exit = 1]
  /\ UNCHANGED <<procVars, cfg, tmpl, web, idx, srv, tw>>

\* Stage 6, the optional access check on the first repository: a warning
\* when there is no repository, its name does not split or Gitea refuses.
RepositoryAccessStage(ok) ==
  /\ chk.pc = 6
  /\ chk' = [chk EXCEPT !.pc = 7,
                        !.ran = @ \cup {6},
                        !.result = IF chk.n > 0 /\ ok THEN Passed(@) ELSE Warned(@)]
  /\ UNCHANGED <<procVars, cfg, tmpl, web, idx, srv, tw>>

\* Stage 7, one iteration of the loop over cfg.Repositories.
RepositoryStage(c) ==
  /\ chk.pc = 7
  /\ chk.i < chk.n
  /\ chk' = [chk EXCEPT !.i = @ + 1,
                        !.ran = @ \cup {7},
                        !.result = checkRepository(@, c)]
  /\ UNCHANGED <<procVars, cfg, tmpl, web, idx, srv, tw>>

\* The summary after the loop, and the exit.
Summary ==
  /\ chk.pc = 7
  /\ chk.i = chk.n
  /\ chk' = [chk EXCEPT !.pc = 0, !.exit = exitCode(chk.result)]
  /\ UNCHANGED <<procVars, cfg, tmpl, web, idx, srv, tw>>

\* ---------------------------------------------------------------- webhook handlers
\* Mutant of handleWebhookAnswer: the error of Enqueue is dropped.
handleWebhookAnswerDropsError(secret, req, r) ==
  LET none == [status |-> 0, decoded |-> FALSE, res |-> <<>>, sent |-> <<>>] IN
  IF req.event # "pull_request" THEN [none EXCEPT !.status = 204]
  ELSE IF secret # "" /\ ~verifySignature(req.body, req.signature, secret)
    THEN [none EXCEPT !.status = 401]
  ELSE IF ~req.body.json THEN [none EXCEPT !.status = 400, !.decoded = TRUE]
  ELSE [status |-> 202, decoded |-> TRUE, res |-> <<r>>, sent |-> <<>>]

\* The answer of Server.handleWebhook to a request, given what Enqueue
\* answers should it be called: the event header, then the signature when a
\* secret is configured, then the JSON decoding, then Enqueue.  A panic of
\* Enqueue is recovered by net/http: the connection is dropped (status 0)
\* and the server goes on.
handleWebhookAnswer(secret, req, r) ==
  LET none == [status |-> 0, decoded |-> FALSE, res |-> <<>>, sent |-> <<>>] IN
  IF req.event # "pull_request" THEN [none EXCEPT !.status = 204]
  ELSE IF secret # "" /\ ~verifySignature(req.body, req.signature, secret)
    THEN [none EXCEPT !.status = 401]
  ELSE IF ~req.body.json THEN [none EXCEPT !.status = 400, !.decoded = TRUE]
  ELSE [status  |-> IF r = "queued" THEN 202 ELSE IF r = "panic" THEN 0 ELSE 503,
        decoded |-> TRUE,
        res     |-> <<r>>,
        sent    |-> IF r = "queued"
                      THEN <<[FullName |-> req.body.FullName, Action |-> req.body.action]>>
                      ELSE <<>>]

\* Server.handleWebhook
handleWebhook(req, r) ==
  /\ web.stage = "idle"
  /\ web' = [stage |-> "answered", secret |-> web.secret, k |-> web.k,
             handler |-> "handleWebhook", req |-> req] @@
            handleWebhookAnswer(web.secret, req, r)
  /\ UNCHANGED <<procVars, cfg, tmpl, chk, idx, srv, tw>>

RECURSIVE enqueuePatterns(_, _, _, _)

\* Mutant of enqueuePatterns: the handler answers after the first pattern.
enqueueFirstPatternOnly(i, k, task, res) ==
  IF i > k THEN [status |-> 202, res |-> <<>>, sent |-> <<>>]
  ELSE IF res[i] = "full" THEN [status |-> 503, res |-> <<"full">>, sent |-> <<>>]
  ELSE [status |-> 202,
        res    |-> <<res[i]>>,
        sent   |-> IF res[i] = "ok" THEN <<[task EXCEPT !.Pattern = i]>> ELSE <<>>]

\* The loop of Handler.ServeHTTP over the repository's patterns, from
\* pattern i on: one Enqueue call per pattern, in order; ErrQueueFull ends
\* the request with 503, any other error is logged and the loop goes on;
\* after the last pattern the answer is 202.
enqueuePatterns(i, k, task, res) ==
  IF i > k THEN [status |-> 202, res |-> <<>>, sent |-> <<>>]
  ELSE IF res[i] = "full" THEN [status |-> 503, res |-> <<"full">>, sent |-> <<>>]
  ELSE LET rest == enqueuePatterns(i + 1, k, task, res) IN
       [status |-> rest.status,
        res    |-> <<res[i]>> \o rest.res,
        sent   |-> (IF res[i] = "ok" THEN <<[task EXCEPT !.Pattern = i]>> ELSE <<>>)
                     \o rest.sent]

\* The pull-request number ServeHTTP uses: pull_request.number, else number.
prNumberOf(body) == IF body.prNumber # 0 THEN body.prNumber ELSE body.number

\* The answer of Handler.ServeHTTP to a request, given what the queue
\* answers each Enqueue call.
ServeHTTPAnswer(secret, k, req, res) ==
  LET none == [status |-> 0, decoded |-> FALSE, res |-> <<>>, sent |-> <<>>]
      dec  == [none EXCEPT !.decoded = TRUE]
  IN
  IF req.method # "POST" THEN [none EXCEPT !.status = 405]
  ELSE IF req.event # "pull_request" THEN [none EXCEPT !.status = 202]
  ELSE IF secret # "" /\ ~HandlerVerifySignature(secret, req.body, req.signature)
    THEN [none EXCEPT !.status = 401]
  ELSE IF ~req.body.json THEN [dec EXCEPT !.status = 400]
  ELSE IF req.body.action \notin allowedActions THEN [dec EXCEPT !.status = 202]
  ELSE IF req.body.FullName = "" THEN [dec EXCEPT !.status = 400]
  ELSE IF ~Repo(WebConfig, req.body.FullName) THEN [dec EXCEPT !.status = 202]
  ELSE IF prNumberOf(req.body) = 0 THEN [dec EXCEPT !.status = 400]
  ELSE [decoded |-> TRUE] @@
       enqueuePatterns(1, k,
                       [Pattern |-> 0, Repo |-> req.body.FullName,
                        Number |-> prNumberOf(req.body), Action |-> req.body.action],
                       res)

\* Handler.ServeHTTP
ServeHTTP(req, res) ==
  /\ web.stage = "idle"
  /\ web' = [stage |-> "answered", secret |-> web.secret, k |-> web.k,
             handler |-> "ServeHTTP", req |-> req] @@
            ServeHTTPAnswer(web.secret, web.k, req, res)
  /\ UNCHANGED <<procVars, cfg, tmpl, chk, idx, srv, tw>>

\* The answer is written and the server waits for the next request.
NextRequest ==
  /\ web.stage = "answered"
  /\ web' = [NoServer EXCEPT !.secret = web.secret, !.k = web.k]
  /\ UNCHANGED <<procVars, cfg, tmpl, chk, idx, srv, tw>>

\* ---------------------------------------------------------------- specification
\* The Stop call of the program: Server.Run defers one Stop, so the queue is
\* closed once.
StopOnce == ~closed /\ Stop

\* A further Stop call on a processor whose queue is closed.
StopAgain == closed /\ Stop

Next ==
  \/ Start
  \/ \E e \in Events : Enqueue(e)
  \/ StopOnce
  \/ StopReturn
  \/ \E w \in Workers : \E r \in Answers : Receive(w, r)
  \/ \E w \in Workers : WorkerExit(w)
  \/ \E w \in Workers : SelectDone(w)
  \/ \E w \in Workers : \E r \in Answers : SelectTick(w, r)
  \/ \E w \in Workers : \E posted \in BOOLEAN : Report(w, posted)
  \/ Tick

\* The processor as the program runs it: a loaded Config, Start, any number of
\* Enqueue calls at any time, one Stop.
Spec == Init /\ [][Next]_vars

\* The processor built on a Config that may have skipped Validate.
SpecAnyConfig == InitAnyConfig /\ [][Next]_vars

\* Loading a configuration file and resolving a payload against it.
NextConfig ==
  \/ Load
  \/ \E fullName \in FullNames : Lookup(fullName)
  \/ Resolve

SpecConfig == InitConfig /\ [][NextConfig]_vars

\* Any one template executed on any one data map.
NextTemplate == \E tpl \in Templates : \E data \in DataMaps : Render(tpl, data)

SpecTemplate == Init /\ [][NextTemplate]_vars

\* The endpoint with or without a secret, for a repository of 1..MaxPatterns
\* patterns.
InitWebhook ==
  /\ cfgValidated = TRUE /\ InitCommon /\ cfg = MinimalConfigFile /\ tmpl = NoRender
  /\ chk = NoCheck /\ idx = LoadedIndex /\ srv = NoRun /\ tw = NoWait
  /\ \E secret \in {"", "secret"} : \E k \in 1..MaxPatterns :
       web = [NoServer EXCEPT !.secret = secret, !.k = k]

\* Requests arrive one after the other at either handler.
NextWebhook ==
  \/ /\ web.stage = "idle"
     /\ \E req \in Requests : \E r \in EnqueueResults : handleWebhook(req, r)
  \/ /\ web.stage = "idle"
     /\ \E req \in Requests : \E res \in [1..web.k -> TaskQueueResults] : ServeHTTP(req, res)
  \/ NextRequest

SpecWebhook == InitWebhook /\ [][NextWebhook]_vars

\* The check command on a configuration of 0..MaxRepos repositories.
InitCheck ==
  /\ cfgValidated = TRUE /\ InitCommon /\ cfg = MinimalConfigFile /\ tmpl = NoRender
  /\ web = NoServer /\ idx = LoadedIndex /\ srv = NoRun /\ tw = NoWait
  /\ \E n \in 0..MaxRepos : chk = [NoCheck EXCEPT !.n = n]

NextCheck ==
  \/ \E ok \in BOOLEAN : CriticalStage(ok)
  \/ \E ok \in BOOLEAN : RepositoryAccessStage(ok)
  \/ \E c \in RepoChecks : RepositoryStage(c)
  \/ Summary

SpecCheck == InitCheck /\ [][NextCheck]_vars

\* The workers' lookups on a Config returned by Load, or on one built as a
\* value (as the tests of the processor do), whose index is nil.
InitLookup ==
  /\ cfgValidated = TRUE /\ InitCommon /\ cfg = MinimalConfigFile /\ tmpl = NoRender
  /\ web = NoServer /\ chk = NoCheck
  /\ idx \in {LoadedIndex, NilIndex}
  /\ srv = NoRun /\ tw = NoWait

NextLookup ==
  \E w \in Workers :
    \/ \E name \in LookupNames : LookupBegin(w, name)
    \/ LookupMake(w)
    \/ \E detected \in BOOLEAN : LookupInsert(w, detected)
    \/ LookupRead(w)
    \/ LookupReturn(w)

SpecLookup == InitLookup /\ [][NextLookup]_vars

\* The program: Server.Run with the webhook handlers of its HTTP server and
\* the workers of its processor.
NextRun ==
  \/ RunStart
  \/ RunListen
  \/ Accept
  \/ HandlerReject
  \/ \E e \in Events : HandlerEnqueue(e)
  \/ RunShutdown
  \/ RunListenError
  \/ RunStop
  \/ StopReturn
  \/ \E w \in Workers : \E r \in Answers : Receive(w, r)
  \/ \E w \in Workers : WorkerExit(w)
  \/ \E w \in Workers : SelectDone(w)
  \/ \E w \in Workers : \E r \in Answers : SelectTick(w, r)
  \/ \E w \in Workers : \E posted \in BOOLEAN : Report(w, posted)
  \/ Tick

SpecRun == Init /\ [][NextRun]_vars

\* One call of the ticker-based WaitForJob with a timeout of 1..MaxTimeout
\* seconds.
InitTickerWait ==
  /\ cfgValidated = TRUE /\ InitCommon /\ cfg = MinimalConfigFile /\ tmpl = NoRender
  /\ web = NoServer /\ chk = NoCheck /\ idx = LoadedIndex /\ srv = NoRun
  /\ \E timeout \in 1..MaxTimeout :
       tw = [NoWait EXCEPT !.timeout = timeout, !.afterAt = timeout]

NextTickerWait ==
  \/ WaitSecond
  \/ \E r \in Answers : WaitTicker(r)
  \/ WaitAfter

SpecTickerWait == InitTickerWait /\ [][NextTickerWait]_vars

\* The processor under callers that may call Stop again.
SpecStopAgain == Init /\ [][Next \/ StopAgain]_vars

\* Each worker goroutine is scheduled whenever it can take a step, every call
\* it makes returns, time passes and wg.Wait returns once the counter is zero.
Fairness ==
  /\ \A w \in Workers :
       /\ WF_vars(\E r \in Answers : Receive(w, r))
       /\ WF_vars(WorkerExit(w))
       /\ WF_vars(SelectDone(w))
       /\ WF_vars(\E r \in Answers : SelectTick(w, r))
       /\ WF_vars(\E posted \in BOOLEAN : Report(w, posted))
  /\ WF_vars(Tick)
  /\ WF_vars(StopReturn)

\* Spec under fair scheduling.
FairSpec == Spec /\ Fairness

\* ---------------------------------------------------------------- properties
Accepted == 1..(nextTask - 1)

Finished(t) ==
  tasks[t].status \in {"no_repository", "not_configured", "ignored_action",
                       "template_error", "pattern_error", "comment_error", "posted",
                       "post_failed"}

AliveWorkers == { w \in Workers : pc[w] \in {"recv", "select", "report"} }

\* Whether the pattern template of the event's rule fails to render or to compile.
BadPattern(evt) ==
  LET found    == GetRepositoryRule(cfgValidated, evt.FullName)
      rendered == executeTemplate(found.rule.JobPattern)
  IN  found.ok /\ (rendered.err \/ ~regexpCompile(rendered.out))

\* C1: PostComment is called at most once for every accepted event, whatever
\* the watch returned and also when PostComment itself failed.
C1_PostAtMostOnce == \A t \in TaskIds : tasks[t].posts <= 1

\* C1 witness: a PostComment call failed and the event ended with that one call.
C1_Witness ==
  \E t \in TaskIds : tasks[t].status = "post_failed" /\ tasks[t].posts = 1

\* C2: on a running processor the buffer never exceeds QueueSize; an Enqueue
\* call is never blocked; it answers "queue is full" exactly when the buffer
\* holds QueueSize events, and then no call changes the buffer; below
\* QueueSize a call is accepted, so a call succeeds again once a worker has
\* received one event; an accepted event is appended at the tail.
C2_EnqueueNeverBlocks ==
  /\ [](Len(queue) <= QueueSize)
  /\ []((started /\ ~closed /\ ~crashed)
          => /\ (EnqueueResult = "full") <=> (Len(queue) = QueueSize)
             /\ (Len(queue) = QueueSize)
                  => /\ ENABLED (\E e \in Events : Enqueue(e))
                     /\ ~ENABLED (\E e \in Events : Enqueue(e) /\ queue' # queue)
             /\ (Len(queue) < QueueSize /\ nextTask <= MaxTasks)
                  => ENABLED (\E e \in Events : Enqueue(e) /\ queue' # queue))
  /\ [][(started /\ ~closed /\ nextTask' # nextTask)
          => (Len(queue) < QueueSize /\ queue' = Append(queue, nextTask))]_vars

\* C2 witness: the buffer of a running processor is full, so that Enqueue
\* answers "queue is full", while a worker is processing an earlier event.
C2_Witness ==
  /\ started /\ ~closed
  /\ EnqueueResult = "full"
  /\ Len(queue) = QueueSize
  /\ \E w \in Workers : cur[w] # 0

C4_ExactlyOneWorker ==
  /\ \A t \in TaskIds : tasks[t].runs <= 1
  /\ \A t \in TaskIds :
       tasks[t].status = "running" => Cardinality({ w \in Workers : cur[w] = t }) = 1
  /\ \A t \in TaskIds : Finished(t) => tasks[t].runs = 1 /\ \A w \in Workers : cur[w] # t
  /\ \A t \in TaskIds : tasks[t].status = "queued" => tasks[t].runs = 0

\* C4 witness: two workers process two different events at the same time.
C4_Witness ==
  \E w1, w2 \in Workers : w1 # w2 /\ cur[w1] # 0 /\ cur[w2] # 0 /\ cur[w1] # cur[w2]

\* C5 (as claimed): no Enqueue call ever sends on the closed queue.
C5_NoSendOnClosedQueue ==
  ~(EnqueueResult = "panic" /\ ENABLED (\E e \in Events : Enqueue(e)))

\* C6 (as claimed): once the shutdown deadline has elapsed while a worker is
\* still inside a watch, the waiting Stop call is able to return.
C6_StopBoundedByDeadline ==
  (/\ ~crashed
   /\ stopPc = "waiting"
   /\ stopWaited >= ShutdownDeadline
   /\ \E w \in Workers : pc[w] = "select" /\ ~ticker[w] /\ ~CtxDone(w))
    => ENABLED StopReturn

\* C7 (as claimed): a panic raised while a worker processes an event leaves
\* the process running with all N workers.
C7_PanicContained ==
  (\E t \in TaskIds : tasks[t].status = "panic")
    => (~crashed /\ Cardinality(AliveWorkers) = WorkerPoolSize)

\* C8: after an event was aborted for an invalid pattern, no worker has left
\* the pool while the queue is open, and every event still in the queue is
\* eventually processed to the end.
C8_InvalidPatternIsolated ==
  /\ []((started /\ ~closed /\ \E u \in TaskIds : tasks[u].status = "pattern_error")
          => Cardinality(AliveWorkers) = WorkerPoolSize)
  /\ \A t \in TaskIds :
       (tasks[t].status = "queued" /\ \E u \in TaskIds : tasks[u].status = "pattern_error")
         ~> Finished(t)

\* C8 witness: an event was aborted for an invalid pattern and an event
\* accepted after it got its comment.
C8_Witness ==
  \E t, u \in TaskIds :
    t < u /\ tasks[t].status = "pattern_error" /\ tasks[u].status = "posted"

\* C9: for an event whose pattern template fails to render or to compile,
\* WaitForJob is never called and no comment is posted.
C9_PatternErrorNoSideEffect ==
  \A t \in Accepted :
    BadPattern(tasks[t].evt) => tasks[t].watches = 0 /\ tasks[t].posts = 0

\* C9 witness: one event was aborted by the template error, another by the
\* compile error.
C9_Witness ==
  \E t, u \in TaskIds :
    tasks[t].status = "template_error" /\ tasks[u].status = "pattern_error"

\* C10 (as claimed): WaitForJob returns without a job only when the wait
\* timeout has elapsed.
C10_NoFailureBeforeDeadline ==
  \A w \in Workers : (pc[w] = "report" /\ ~job[w]) => CtxDone(w)

\* C11: WaitForJob returns a job only from a poll made before the wait timeout
\* has elapsed; once the deadline has passed it returns no job, also when the
\* ticker and the deadline were ready together and one more poll was made.
C11_JobOnlyWithinTimeout ==
  \A w \in Workers :
    (pc[w] = "report" /\ job[w]) =>
      /\ attempt[w] >= 1
      /\ elapsed[w] < RuleOf(w).Timeout

\* The number of polls a watch makes strictly before its deadline is at most
\* one on entry plus one per interval.
PollsBeforeDeadline(w) == 1 + (RuleOf(w).Timeout - 1) \div RuleOf(w).PollInterval

\* C11 witness: ticker and deadline were ready together, the select took the
\* ticker, and the poll made after the deadline returned no job.
C11_Witness ==
  \E w \in Workers :
    /\ pc[w] = "report"
    /\ CtxDone(w)
    /\ attempt[w] = PollsBeforeDeadline(w) + 1
    /\ ~job[w]

\* C12: a watch that has been entered has issued at least one query, the first
\* one on entry before any time was spent waiting; a job is held only by a
\* watch that has returned, a watch returns at the very poll that observed
\* the match (including the first), and a returned watch polls no more.
C12_PollFirstReturnOnMatch ==
  /\ [](\A w \in Workers :
          /\ pc[w] \in {"select", "report"} => attempt[w] >= 1
          /\ job[w] => pc[w] = "report")
  /\ [][\A w \in Workers :
          /\ (pc[w] = "recv" /\ pc'[w] \in {"select", "report"}) =>
               attempt'[w] = 1 /\ elapsed'[w] = 0
          /\ (job'[w] /\ ~job[w]) =>
               attempt'[w] = attempt[w] + 1 /\ pc'[w] = "report"
          /\ pc[w] = "report" => attempt'[w] <= attempt[w]]_vars

\* C12 witness: the first poll, made on entry, observed the match and the
\* watch returned the job without waiting.
C12_Witness ==
  \E w \in Workers :
    pc[w] = "report" /\ job[w] /\ attempt[w] = 1 /\ elapsed[w] = 0

\* C13: every watch terminates under fair scheduling: its clock never passes
\* the wait timeout, the number of its polls is bounded, and a watch waiting
\* in the select always comes to return, with or without a job and whatever
\* the queries answer.
C13_WatchTerminates ==
  /\ [](\A w \in Workers :
          pc[w] \in {"select", "report"} =>
            /\ elapsed[w] <= RuleOf(w).Timeout
            /\ attempt[w] <= PollsBeforeDeadline(w) + 1)
  /\ \A w \in Workers : (pc[w] = "select") ~> (pc[w] = "report")

\* C13 witness: one watch has returned at its deadline after polling in vain,
\* another has returned before the deadline because its query failed.
C13_Witness ==
  \E w, v \in Workers :
    /\ pc[w] = "report" /\ ~job[w] /\ elapsed[w] = RuleOf(w).Timeout
    /\ pc[v] = "report" /\ ~job[v] /\ ~CtxDone(v)

C15_EnqueueBeforeStartRejected ==
  ~started =>
    /\ EnqueueResult = "notstarted"
    /\ queue = <<>>
    /\ nextTask = 1
    /\ ~ENABLED (\E e \in Events : Enqueue(e) /\ vars' # vars)

\* C15 witness: the processor is not started and an Enqueue call can be made.
C15_Witness ==
  /\ ~started
  /\ ENABLED (\E e \in Events : Enqueue(e))
  /\ EnqueueResult = "notstarted"

\* C16: Start is idempotent: before Start there is no worker; on a started
\* processor the workers spawned are exactly the N of the one effective Start
\* (the WaitGroup counts the live ones, never more than N), and any further
\* Start call spawns nothing and changes no state.
C16_StartIdempotent ==
  /\ ~started => wg = 0 /\ AliveWorkers = {}
  /\ started =>
       /\ wg = Cardinality(AliveWorkers)
       /\ wg <= WorkerPoolSize
       /\ ~closed => wg = WorkerPoolSize
       /\ ~ENABLED (Start /\ vars' # vars)

\* C16 witness: the processor is started, a worker is in the middle of a
\* watch, and Start can be called again.
C16_Witness ==
  /\ started
  /\ wg = WorkerPoolSize
  /\ \E w \in Workers : pc[w] = "select"
  /\ ENABLED Start

\* C17 (as claimed): every opened pull request of a configured repository
\* whose pattern compiled, once processed to the end, has exactly one
\* PostComment call.
C17_ExactlyOneComment ==
  \A t \in Accepted :
    (tasks[t].watches = 1 /\ Finished(t)) => tasks[t].posts = 1

\* C17 (amended): when the watch of such a pull request has returned and the
\* comment template chosen for its outcome renders, processEvent makes exactly
\* one PostComment call, with the success template's text carrying the job's
\* name and URL if and only if the watch returned a job, and the rule's
\* failure text otherwise; no comment is posted only when that template does
\* not render.
C17_OneCommentWhenTemplateRenders ==
  /\ [](\A t \in Accepted :
          (tasks[t].watches = 1 /\ Finished(t)) =>
            (tasks[t].posts = 1 \/ tasks[t].status = "comment_error"))
  /\ [][\A w \in Workers :
          (pc[w] = "report" /\ pc'[w] = "recv") =>
            LET tpl == IF job[w] THEN RuleOf(w).SuccessCommentTemplate
                       ELSE RuleOf(w).FailureCommentTemplate
            IN  IF executeTemplate(tpl).err
                  THEN tasks'[cur[w]].posts = 0
                  ELSE /\ tasks[cur[w]].posts = 0
                       /\ tasks'[cur[w]].posts = 1
                       /\ tasks'[cur[w]].comment =
                            IF job[w]
                              THEN "Jenkins job job-42 detected: http://jenkins/job/job-42"
                              ELSE "Jenkins job not detected for PR 42 within timeout (2)."]_vars

\* C17 witness: one pull request got its success comment, another its
\* failure comment, each with a single PostComment call.
C17_Witness ==
  \E t, u \in Accepted :
    /\ tasks[t].posts = 1
    /\ tasks[t].comment = "Jenkins job job-42 detected: http://jenkins/job/job-42"
    /\ tasks[u].posts = 1
    /\ tasks[u].comment = "Jenkins job not detected for PR 42 within timeout (2)."

\* C18: for a loaded configuration, each effective value of a pattern is the
\* pattern's own value when the pattern sets one (a positive duration, a
\* non-empty template), else the repository's when the repository sets one,
\* else the global default (the processing default for a duration, the
\* built-in text for a template), whatever the three levels give.
C18_ThreeLevelFallback ==
  cfg.stage = "resolved" =>
    /\ cfg.effective.WaitTimeout =
         IF cfg.pattern.WaitTimeout > 0 THEN cfg.pattern.WaitTimeout
         ELSE IF cfg.repo.WaitTimeout > 0 THEN cfg.repo.WaitTimeout
         ELSE cfg.DefaultWaitTimeout
    /\ cfg.effective.PollInterval =
         IF cfg.pattern.PollInterval > 0 THEN cfg.pattern.PollInterval
         ELSE IF cfg.repo.PollInterval > 0 THEN cfg.repo.PollInterval
         ELSE cfg.DefaultPollInterval
    /\ cfg.effective.SuccessCommentTemplate =
         IF cfg.pattern.SuccessCommentTemplate # "" THEN "pattern: job {{ .JobURL }}"
         ELSE IF cfg.repo.SuccessCommentTemplate # "" THEN "repo: job {{ .JobURL }}"
         ELSE "Jenkins job detected: {{ .JobURL }}"
    /\ cfg.effective.FailureCommentTemplate =
         IF cfg.pattern.FailureCommentTemplate # "" THEN "pattern: no job"
         ELSE IF cfg.repo.FailureCommentTemplate # "" THEN "repo: no job"
         ELSE "Jenkins job was not found within {{ .WaitDurationText }}."

\* C18 witness: one pattern takes its wait timeout from the repository, its
\* poll interval from itself, its success template from the built-in default
\* and its failure template from the repository.
C18_Witness ==
  /\ cfg.stage = "resolved"
  /\ cfg.pattern.WaitTimeout = 0 /\ cfg.repo.WaitTimeout = 2
  /\ cfg.effective.WaitTimeout = 2
  /\ cfg.pattern.PollInterval = 3 /\ cfg.effective.PollInterval = 3
  /\ cfg.pattern.SuccessCommentTemplate = "" /\ cfg.repo.SuccessCommentTemplate = ""
  /\ cfg.effective.SuccessCommentTemplate = "Jenkins job detected: {{ .JobURL }}"
  /\ cfg.pattern.FailureCommentTemplate = ""
  /\ cfg.effective.FailureCommentTemplate = "repo: no job"

\* C19 (as claimed): for every configuration Load accepts, the effective wait
\* timeout and the effective poll interval of a pattern are strictly
\* positive.
C19_EffectiveDurationsPositive ==
  cfg.stage = "resolved" =>
    cfg.effective.WaitTimeout > 0 /\ cfg.effective.PollInterval > 0

\* C20 (as claimed): a payload's repository name is found exactly when it
\* equals a configured name up to letter case, by the lookup of the
\* pattern-based Config and by the lookup the processor uses.
C20_LookupCaseInsensitive ==
  cfg.stage = "looked" =>
    /\ cfg.found <=> (ToLower(cfg.query) = ToLower(cfg.FullName))
    /\ cfg.ruleFound <=>
         (\E r \in RepoIndex(cfgValidated) : ToLower(r.Name) = ToLower(cfg.query))

C22_MissingFieldIsError ==
  tmpl.stage = "done" =>
    ((\E i \in 1..Len(tmpl.tpl) :
        \/ tmpl.tpl[i].kind = "unclosed"
        \/ tmpl.tpl[i].kind = "field" /\ tmpl.tpl[i].v \notin DOMAIN tmpl.data)
      => (tmpl.err /\ tmpl.out = <<>>))

\* ---------------------------------------------------------------- webhook properties
\* The signature header of the request in hand is missing or is not the
\* HMAC of its raw body under the configured secret.
BadSignature ==
  \/ web.req.signature = NoSignature
  \/ web.req.signature.hex # computeSignature(web.req.body, web.secret)

\* C23: when Enqueue reports a full queue the handler answers 503, never a
\* success status, and the endpoint then takes the next request.
C23_QueueFullAnswers503 ==
  (web.stage = "answered" /\ \E i \in 1..Len(web.res) : web.res[i] = "full") =>
    /\ web.status = 503
    /\ web.status \notin {200, 202, 204}
    /\ ENABLED NextRequest

C23_Witness ==
  /\ web.stage = "answered" /\ web.handler = "ServeHTTP" /\ web.k = 2
  /\ web.res = <<"ok", "full">> /\ web.status = 503

\* C24: with a secret configured, a pull-request request whose signature is
\* missing or wrong is answered 401 before the payload is decoded, and
\* nothing is enqueued.
C24_BadSignatureRejected ==
  ( /\ web.stage = "answered"
    /\ web.secret # ""
    /\ web.req.event = "pull_request"
    /\ (web.handler = "ServeHTTP" => web.req.method = "POST")
    /\ BadSignature ) =>
    /\ web.status = 401
    /\ ~web.decoded
    /\ web.res = <<>> /\ web.sent = <<>>

C24_Witness ==
  /\ web.stage = "answered" /\ web.handler = "handleWebhook" /\ web.secret = "secret"
  /\ web.req.event = "pull_request"
  /\ web.req.signature = [prefixed |-> TRUE, hex |-> <<"deadbeef">>]
  /\ ~web.req.body.json
  /\ web.status = 401

\* C25: an accepted opened or reopened event of the configured repository
\* with k patterns, the queue accepting every task, makes ServeHTTP call
\* Enqueue exactly k times, once per pattern in the configured order, every
\* task with the same pull-request snapshot, and the answer is 202.
C25_OneTaskPerPattern ==
  ( /\ web.stage = "answered" /\ web.handler = "ServeHTTP"
    /\ web.req.method = "POST" /\ web.req.event = "pull_request"
    /\ (web.secret = "" \/ ~BadSignature)
    /\ web.req.body.json
    /\ web.req.body.action \in {"opened", "reopened"}
    /\ web.req.body.FullName \in {"org/repo", "Org/Repo"}
    /\ (web.req.body.prNumber # 0 \/ web.req.body.number # 0)
    /\ \A i \in 1..Len(web.res) : web.res[i] = "ok" ) =>
    /\ web.status = 202
    /\ Len(web.res) = web.k
    /\ Len(web.sent) = web.k
    /\ \A i \in 1..web.k :
         /\ web.sent[i].Pattern = i
         /\ web.sent[i].Action = web.req.body.action
         /\ web.sent[i].Number = web.sent[1].Number
         /\ web.sent[i].Repo = web.sent[1].Repo
         /\ web.sent[i].Number \in {web.req.body.prNumber, web.req.body.number} \ {0}

C25_Witness ==
  /\ web.stage = "answered" /\ web.handler = "ServeHTTP"
  /\ web.secret = "secret" /\ web.k = 2
  /\ web.req.body.action = "reopened" /\ web.req.body.FullName = "Org/Repo"
  /\ web.status = 202 /\ Len(web.sent) = 2
  /\ web.sent[1].Pattern = 1 /\ web.sent[2].Pattern = 2

\* ---------------------------------------------------------------- action filter
\* C27: only an opened or reopened pull request leads to work: an event of a
\* configured repository with any other action ends ignored, with no job
\* query, no comment and no error.
C27_OtherActionsIgnored ==
  \A t \in Accepted :
    ( /\ GetRepositoryRule(cfgValidated, tasks[t].evt.FullName).ok
      /\ tasks[t].evt.Action \notin {"opened", "reopened"} ) =>
      /\ tasks[t].status \in {"queued", "ignored_action"}
      /\ tasks[t].watches = 0 /\ tasks[t].posts = 0
      /\ \A w \in Workers : cur[w] # t
      /\ ~crashed

C27_Witness ==
  /\ \E t \in Accepted : /\ tasks[t].evt = [FullName |-> "org/repo", Action |-> "closed"]
                         /\ tasks[t].status = "ignored_action" /\ tasks[t].runs = 1
  /\ Cardinality(AliveWorkers) = WorkerPoolSize

\* ---------------------------------------------------------------- watch result
\* C26: a watch in which no poll found a job returns no job and a non-nil
\* error, the deadline error when it ran to its timeout; a nil error comes
\* only with a job.
C26_NoJobMeansError ==
  /\ [](\A w \in Workers :
          pc[w] = "report" => /\ (~job[w] => err[w] # "nil")
                              /\ (job[w] => err[w] = "nil"))
  /\ [][\A w \in Workers :
          (pc[w] = "select" /\ pc'[w] = "report" /\ CtxDone(w)) =>
            (~job'[w] /\ err'[w] = "deadline")]_vars

C26_Witness ==
  \E w \in Workers :
    /\ pc[w] = "report" /\ ~job[w] /\ err[w] = "deadline"
    /\ attempt[w] = PollsBeforeDeadline(w)
    /\ elapsed[w] >= RuleOf(w).Timeout

C29_StepsSequential ==
  /\ [](\A t \in Accepted :
          /\ tasks[t].watches > 0 => Outcome(tasks[t].evt) = "watch"
          /\ tasks[t].watches <= 1
          /\ tasks[t].posts > 0 =>
               /\ tasks[t].watches = 1
               /\ Finished(t)
               /\ \A w \in Workers : cur[w] # t
          /\ Cardinality({ w \in Workers : cur[w] = t }) <= 1)
  /\ [][\A t \in Accepted :
          /\ tasks'[t].watches > tasks[t].watches =>
               tasks[t].status = "queued" /\ tasks[t].posts = 0
          /\ tasks'[t].posts > tasks[t].posts =>
               \E w \in Workers : /\ cur[w] = t /\ pc[w] = "report"
                                  /\ tasks[t].watches = 1
                                  /\ cur'[w] = 0 /\ pc'[w] = "recv"]_vars

C29_Witness ==
  \E t \in Accepted :
    /\ tasks[t].watches = 1 /\ tasks[t].posts = 1 /\ tasks[t].status = "posted"
    /\ \E u \in Accepted : u # t /\ \E w \in Workers : cur[w] = u /\ pc[w] = "select"

\* ---------------------------------------------------------------- shared configuration
\* C30 (as claimed): a worker's rule lookup never writes the repository index
\* of the shared Config, whether or not the Config came from Load, so
\* concurrent lookups cannot disturb each other: none stops the process and
\* every lookup of a configured name finds its rule.
C30_LookupsNeverWrite ==
  /\ [](/\ ~idx.fatal
        /\ \A w \in Workers :
             (idx.w[w].pc = "done" /\ idx.w[w].name = "org/repo") => idx.w[w].ok)
  /\ [][idx'.isNil = idx.isNil /\ idx'.index = idx.index]_vars

\* ---------------------------------------------------------------- queue liveness
\* C31: under fair scheduling every event Enqueue accepted is eventually
\* received by a worker and processed to its end; while an accepted event
\* waits it is in the buffer and some worker is still in the pool, also
\* after Stop has closed the queue.
C31_AcceptedEventuallyProcessed ==
  /\ [](\A t \in Accepted :
          tasks[t].status = "queued" =>
            /\ \E i \in 1..Len(queue) : queue[i] = t
            /\ AliveWorkers # {})
  /\ \A t \in TaskIds :
       (tasks[t].status = "queued") ~> (Finished(t) /\ tasks[t].runs = 1)

\* C31 witness: Stop found events pending, and has returned with every
\* accepted event processed.
C31_Witness ==
  /\ stopPc = "returned" /\ pendingAtStop
  /\ nextTask = MaxTasks + 1
  /\ \A t \in Accepted : Finished(t) /\ tasks[t].runs = 1

\* ---------------------------------------------------------------- repeated Stop
\* C32 (as claimed): Stop is safe in every lifecycle state: no Stop call ever
\* runs close on the closed queue, and none ends the process; a Stop call on
\* a processor that has completed a Stop leaves the queue as it is.
C32_StopSafeInEveryState ==
  /\ [](~closeOfClosed /\ ~crashed)
  /\ [][stopPc = "returned" => (closed' = closed /\ mu' = mu)]_vars

\* ---------------------------------------------------------------- server lifecycle
\* C33 (as claimed): while Server.Run runs, a webhook handler that has yet
\* to call Enqueue always finds the processor started and its queue open:
\* the processor is started before the first request is accepted and stopped
\* only when no handler is left.
C33_HandlersOnlyWhileRunning ==
  srv.inflight > 0 => (started /\ ~closed)

\* ---------------------------------------------------------------- webhook answers and the queue
\* C34 (as claimed): when ServeHTTP answers 503 for a full queue, none of the
\* event's per-pattern tasks has been enqueued.
C34_NothingEnqueuedOn503 ==
  (web.stage = "answered" /\ web.handler = "ServeHTTP" /\ web.status = 503) =>
    web.sent = <<>>

\* C35 (as claimed): a handler answers 202 to an event it tried to enqueue
\* only if every Enqueue call it made was accepted; no Enqueue error, full
\* queue or other, is answered with success.
C35_SuccessOnlyIfAllAccepted ==
  (web.stage = "answered" /\ web.status = 202) =>
    \A i \in 1..Len(web.res) : web.res[i] \in {"ok", "queued"}

\* ---------------------------------------------------------------- ticker-based WaitForJob properties
\* C36 (as claimed): the ticker-based WaitForJob reports a timeout, as (no
\* job, no error), only after it has queried the build server at least once,
\* whatever the positive timeout.
C36_PollsBeforeTimeout ==
  (tw.pc = "returned" /\ ~tw.job /\ ~tw.err) => tw.polls >= 1

====
